---------------------------- MODULE Spec2Model ----------------------------
(***************************************************************************)
(* Model of src/climate_emoji.py: the Streamlit script that loads the NASA *)
(* GISTEMP table (cached for one hour), reshapes it into monthly records,  *)
(* labels each record with an "Earth mood", derives a rolling mean, a      *)
(* 10-year trend, a correlation and two linear predictions, and renders a  *)
(* view filtered by date range and mood.                                   *)
(*                                                                         *)
(* Numbers.  Anomalies are held in hundredths of a degree (the CSV prints  *)
(* two decimals), so 1.5 is 150 and 0.5 is 50.  Quotients are kept exact   *)
(* as records [num, den].  Mood labels are written without their emoji.    *)
(* Dates are triples <<year, month, day>> ordered as timestamps are.       *)
(***************************************************************************)
EXTENDS Integers, Sequences, FiniteSets, TLC

VARIABLES
    remote,       \* the table NASA_URL serves at the moment
    now,          \* wall clock, seconds
    cache,        \* st.cache_data's entry for load_nasa_data
    lastFetch,    \* time of the last successful HTTP fetch, -1 before any
    status,       \* how the last script run ended
    fetched,      \* whether the last script run performed an HTTP fetch
    loaded,       \* what load_nasa_data() returned to the last script run
    df,           \* the script's table after "Prepare Data"
    date_input,   \* what st.sidebar.date_input returned
    mood_filter,  \* what st.sidebar.multiselect returned
    filtered,     \* the filtered view
    metrics,      \* the five values of the metrics dashboard
    charts,       \* data handed to the histogram and the pie chart
    arg,          \* input of a function under study
    res,          \* its result
    pc            \* "main" for the script; "call"/"done" for a function study

vars == <<remote, now, cache, lastFetch, status, fetched, loaded, df,
          date_input, mood_filter, filtered, metrics, charts, arg, res, pc>>

scriptVars == <<remote, now, cache, lastFetch, status, fetched, loaded, df,
                date_input, mood_filter, filtered, metrics, charts>>

-----------------------------------------------------------------------------
(* Generic helpers                                                         *)

Range(s) == {s[i] : i \in DOMAIN s}

Min2(a, b) == IF a <= b THEN a ELSE b

Max2(a, b) == IF a >= b THEN a ELSE b

RECURSIVE SumSeq(_)
SumSeq(s) == IF s = <<>> THEN 0 ELSE s[1] + SumSeq(Tail(s))

\* The last n elements of s (all of s when it is shorter): DataFrame.tail(n).
\* pandas special-cases n = 0 to the empty frame.
TailN(s, n) ==
    IF n = 0 THEN <<>>
    ELSE IF Len(s) <= n THEN s
    ELSE SubSeq(s, Len(s) - n + 1, Len(s))

-----------------------------------------------------------------------------
(* Helper functions of the script                                          *)

Moods == {"Hot", "Warm", "Stable", "Cold"}

\* Variant with exclusive lower bounds, for comparison.
get_earth_mood_exclusive(a) ==
    IF a > 150 THEN "Hot"
    ELSE IF a > 50 THEN "Warm"
    ELSE IF a > 0 THEN "Stable"
    ELSE "Cold"

get_earth_mood(a) ==
    IF a >= 150 THEN "Hot"
    ELSE IF a >= 50 THEN "Warm"
    ELSE IF a >= 0 THEN "Stable"
    ELSE "Cold"

get_mood_color(mood) ==
    CASE mood = "Hot" -> "#FF4444"
      [] mood = "Warm" -> "#FF8800"
      [] mood = "Stable" -> "#44AA44"
      [] mood = "Cold" -> "#4488FF"
      [] OTHER -> "#999"

-----------------------------------------------------------------------------
(* Raw table and load_nasa_data                                            *)

\* A CSV field: text that parses as a number, or some other text.
Num(n) == [kind |-> "number", num |-> n]

Txt(s) == [kind |-> s, num |-> 0]

\* A numeric cell after coercion: a value or NaN.
NaN == [nan |-> TRUE, val |-> 0]

Val(n) == [nan |-> FALSE, val |-> n]

\* df.replace("*******", pd.NA)
ReplaceSentinel(c) == IF c.kind = "*******" THEN Txt("NA") ELSE c

\* pd.to_numeric(..., errors="coerce")
ToNumeric(c) == IF c.kind = "number" THEN Val(c.num) ELSE NaN

month_map ==
    [m \in {"Jan", "Feb", "Mar", "Apr", "May", "Jun",
            "Jul", "Aug", "Sep", "Oct", "Nov", "Dec"} |->
        CASE m = "Jan" -> 1 [] m = "Feb" -> 2 [] m = "Mar" -> 3
          [] m = "Apr" -> 4 [] m = "May" -> 5 [] m = "Jun" -> 6
          [] m = "Jul" -> 7 [] m = "Aug" -> 8 [] m = "Sep" -> 9
          [] m = "Oct" -> 10 [] m = "Nov" -> 11 [] m = "Dec" -> 12]

\* Timestamp order on <<year, month, day>>.
DateLE(a, b) ==
    \/ a[1] < b[1]
    \/ a[1] = b[1] /\ a[2] < b[2]
    \/ a[1] = b[1] /\ a[2] = b[2] /\ a[3] <= b[3]

DateLT(a, b) == DateLE(a, b) /\ a # b

\* df.melt(id_vars=["Year"], var_name="Month", value_name="Anomaly"):
\* column by column, and within a column row by row.
Melt(raw) ==
    LET nr == Len(raw.rows)
        nc == Len(raw.columns)
    IN [k \in 1..(nr * nc) |->
          LET c == ((k - 1) \div nr) + 1
              r == ((k - 1) % nr) + 1
          IN [Year |-> raw.rows[r].Year,
              Month |-> raw.columns[c],
              Anomaly |-> ToNumeric(ReplaceSentinel(raw.rows[r].cells[c]))]]

RECURSIVE InsertByDate(_, _)
InsertByDate(s, r) ==
    IF s = <<>> THEN <<r>>
    ELSE IF DateLE(s[Len(s)].Date, r.Date) THEN Append(s, r)
    ELSE Append(InsertByDate(SubSeq(s, 1, Len(s) - 1), r), s[Len(s)])

\* Variant that leaves the melted order as it is.
SortByDate_none(s) == s

RECURSIVE SortByDate(_)
SortByDate(s) ==
    IF s = <<>> THEN <<>>
    ELSE InsertByDate(SortByDate(SubSeq(s, 1, Len(s) - 1)), s[Len(s)])

IsMonthColumn(name) == name \in DOMAIN month_map

load_nasa_data(raw) ==
    LET long == SelectSeq(Melt(raw), LAMBDA r : ~r.Anomaly.nan)
        months == SelectSeq(long, LAMBDA r : IsMonthColumn(r.Month))
        dated == [k \in 1..Len(months) |->
                    [Year |-> months[k].Year,
                     Month |-> months[k].Month,
                     Anomaly |-> months[k].Anomaly.val,
                     Date |-> <<months[k].Year, month_map[months[k].Month], 1>>]]
    IN SortByDate(dated)

-----------------------------------------------------------------------------
(* Statistics                                                              *)

RollingWindow == 120

MinPeriods == 30

TrendYears == 10

\* Series.rolling(window, min_periods).mean(): at each position the window is
\* the last `window` values ending there (fewer near the start); the mean is
\* sum/nobs when the window holds at least min_periods values, NaN otherwise.
\* A mean is kept as [nan, sum, n].
NoMean == [nan |-> TRUE, sum |-> 0, n |-> 0]

RECURSIVE SumRange(_, _, _)
SumRange(ys, lo, hi) ==
    IF lo > hi THEN 0
    ELSE IF lo = hi THEN ys[lo]
    ELSE LET mid == (lo + hi) \div 2
         IN SumRange(ys, lo, mid) + SumRange(ys, mid + 1, hi)

\* Variant that needs more than min_periods values.
RollEmit_late(sum, nobs, min_periods) ==
    IF nobs > min_periods THEN [nan |-> FALSE, sum |-> sum, n |-> nobs] ELSE NoMean

RollEmit(sum, nobs, min_periods) ==
    IF nobs >= min_periods THEN [nan |-> FALSE, sum |-> sum, n |-> nobs] ELSE NoMean

rolling_mean(ys, window, min_periods) ==
    [i \in 1..Len(ys) |->
        LET start == Max2(1, i - window + 1)
        IN RollEmit(SumRange(ys, start, i), i - start + 1, min_periods)]

Anomalies(data) == [k \in 1..Len(data) |-> data[k].Anomaly]

Years(data) == [k \in 1..Len(data) |-> data[k].Year]

\* Least squares of degree 1, np.polyfit(x, y, 1), in exact arithmetic with
\* centred terms dx[i] = n*x[i] - sum(x), Sxy = sum(dx*y), D = sum(dx*dx)/n:
\*   slope = Sxy / D,  intercept = (sy*D - Sxy*sx) / (n*D).
\* When every x is the same (Sxx = 0, also a single point) the system is rank
\* deficient: numpy warns (warnings are ignored, line 15) and returns the
\* minimum-norm solution of the column-scaled system, slope = mean/(2x),
\* intercept = mean/2.  An empty x raises TypeError.
Centred(xs) == [k \in 1..Len(xs) |-> Len(xs) * xs[k] - SumSeq(xs)]

Dot(us, vs) == SumSeq([k \in 1..Len(us) |-> us[k] * vs[k]])

polyfit1(xs, ys) ==
    LET n == Len(xs)
        sx == SumSeq(xs)
        sy == SumSeq(ys)
        dx == Centred(xs)
        Sxy == Dot(dx, ys)
        D == Dot(dx, dx) \div Max2(n, 1)
    IN IF n = 0 THEN [raises |-> TRUE, rank |-> 0, slope_num |-> 0, slope_den |-> 1,
                      icpt_num |-> 0, icpt_den |-> 1]
       ELSE IF D = 0
            THEN [raises |-> FALSE, rank |-> 1,
                  slope_num |-> sy, slope_den |-> 2 * n * xs[1],
                  icpt_num |-> sy, icpt_den |-> 2 * n]
            ELSE [raises |-> FALSE, rank |-> 2,
                  slope_num |-> Sxy, slope_den |-> D,
                  icpt_num |-> sy * D - Sxy * sx, icpt_den |-> n * D]

\* np.polyval(p, x) = slope*x + intercept, as one quotient.
polyval(p, x) ==
    [num |-> p.slope_num * x * p.icpt_den + p.icpt_num * p.slope_den,
     den |-> p.slope_den * p.icpt_den]

Arange(n) == [k \in 1..n |-> k - 1]

\* Variant whose guard lets a single point through to the fit.
calc_trend_no_guard(data, years) ==
    LET recent == TailN(data, years * 12)
        p == polyfit1(Arange(Len(recent)), Anomalies(recent))
    IN IF Len(recent) < 1 THEN [num |-> 0, den |-> 1]
       ELSE [num |-> p.slope_num * 12, den |-> p.slope_den]

calc_trend(data, years) ==
    LET recent == TailN(data, years * 12)
        p == polyfit1(Arange(Len(recent)), Anomalies(recent))
    IN IF Len(recent) < 2 THEN [num |-> 0, den |-> 1]
       ELSE [num |-> p.slope_num * 12, den |-> p.slope_den]

\* Series.corr: Pearson's r = cov / sqrt(varx * vary), NaN when there is no
\* variance to divide by (fewer than two points, or a constant column).  The
\* three sums are kept, since the square root has no exact value.
NoCorr == [nan |-> TRUE, cov |-> 0, varx |-> 0, vary |-> 0]

corr(xs, ys) ==
    LET dx == Centred(xs)
        dy == Centred(ys)
    IN IF Len(xs) = 0 \/ Dot(dx, dx) = 0 \/ Dot(dy, dy) = 0 THEN NoCorr
       ELSE [nan |-> FALSE, cov |-> Dot(dx, dy),
             varx |-> Dot(dx, dx), vary |-> Dot(dy, dy)]

-----------------------------------------------------------------------------
(* The script run: Prepare Data, statistics, sidebar filter, charts        *)

Year2030 == 2030

Year2050 == 2050

\* Lines 87-89: the three derived columns.
Prepare(table) ==
    LET roll == rolling_mean(Anomalies(table), RollingWindow, MinPeriods)
    IN [k \in 1..Len(table) |->
          [Year |-> table[k].Year,
           Month |-> table[k].Month,
           Anomaly |-> table[k].Anomaly,
           Date |-> table[k].Date,
           Mood |-> get_earth_mood(table[k].Anomaly),
           Mood_Color |-> get_mood_color(get_earth_mood(table[k].Anomaly)),
           Rolling10yr |-> roll[k]]]

NoMetrics == [shown |-> FALSE]

\* Lines 91-95 and the dashboard of lines 127-138.
Metrics(table) ==
    IF table = <<>> THEN NoMetrics
    ELSE LET latest == table[Len(table)]
             trend_10 == calc_trend(table, TrendYears)
             fit == polyfit1(Years(table), Anomalies(table))
         IN [shown |-> TRUE,
             latest_mood |-> latest.Mood,
             latest_anomaly |-> latest.Anomaly,
             trend_10 |-> trend_10,
             trend_word |-> IF trend_10.num * trend_10.den > 0
                            THEN "Warming" ELSE "Cooling",
             corr |-> corr(Years(table), Anomalies(table)),
             pred_2030 |-> polyval(fit, Year2030),
             pred_2050 |-> polyval(fit, Year2050)]

\* Variant that takes the statistics from the filtered view.
StatsTable_view(full, view) == view

\* The table the statistics are taken from: the full one (df), not the view.
StatsTable(full, view) == full

\* Variant with an exclusive end.
DateMask_open_end(table, start, end) ==
    SelectSeq(table, LAMBDA r : DateLE(start, r.Date) /\ DateLT(r.Date, end))

\* Lines 105-106: both ends of the range are inclusive.
DateMask(table, start, end) ==
    SelectSeq(table, LAMBDA r : DateLE(start, r.Date) /\ DateLE(r.Date, end))

\* Line 112.
MoodMask(view, moods) == SelectSeq(view, LAMBDA r : r.Mood \in moods)

RECURSIVE InsertAsc(_, _)
InsertAsc(s, v) ==
    IF s = <<>> THEN <<v>>
    ELSE IF s[Len(s)] <= v THEN Append(s, v)
    ELSE Append(InsertAsc(SubSeq(s, 1, Len(s) - 1), v), s[Len(s)])

RECURSIVE SortAsc(_)
SortAsc(s) ==
    IF s = <<>> THEN <<>>
    ELSE InsertAsc(SortAsc(SubSeq(s, 1, Len(s) - 1)), s[Len(s)])

\* Series.value_counts(): the labels that occur, each with its count.
ValueCounts(view) ==
    [m \in {view[k].Mood : k \in 1..Len(view)} |->
        Cardinality({k \in 1..Len(view) : view[k].Mood = m})]

NoCharts == [drawn |-> FALSE]

\* Lines 204-221 and 259-269: what the histogram and the pie are built from.
Charts(view) ==
    [drawn |-> TRUE,
     hist_x |-> SortAsc(Anomalies(view)),
     hist_count |-> Len(view),
     pie |-> ValueCounts(view)]

MinDate(table) ==
    CHOOSE d \in {table[k].Date : k \in 1..Len(table)} :
        \A k \in 1..Len(table) : DateLE(d, table[k].Date)

MaxDate(table) ==
    CHOOSE d \in {table[k].Date : k \in 1..Len(table)} :
        \A k \in 1..Len(table) : DateLE(table[k].Date, d)

-----------------------------------------------------------------------------
(* st.cache_data(ttl=3600)                                                 *)

ttl == 3600

NoEntry == [valid |-> FALSE, value |-> <<>>, stored |-> 0]

\* Variant without a time-to-live.
CacheFresh_forever(entry, t) == entry.valid

\* An entry stored at time s is served while now < s + ttl.
CacheFresh(entry, t) == entry.valid /\ t < entry.stored + ttl

\* Variant in which the caller is handed the stored object itself.
StoredAfterRun_shared(stored, mutated) == mutated

\* cache_data hands each caller its own copy of the stored value, so what the
\* script does to the table it received leaves the stored value as it was.
StoredAfterRun(stored, mutated) == stored

-----------------------------------------------------------------------------
(* Tables served by NASA_URL                                               *)

FirstYear == 1950

Row(y, cs) == [Year |-> y, cells |-> cs]

\* Every value missing (the sentinel and the short form NASA prints).
TableNoValue ==
    [columns |-> <<"Jan", "Feb", "J-D">>,
     rows |-> <<Row(FirstYear, <<Txt("*******"), Txt("***"), Txt("***")>>)>>]

TableOneRecord ==
    [columns |-> <<"Jan", "Feb", "J-D">>,
     rows |-> <<Row(FirstYear, <<Num(-20), Txt("***"), Num(-20)>>)>>]

TableOneYear ==
    [columns |-> <<"Jan", "Feb", "J-D">>,
     rows |-> <<Row(FirstYear, <<Num(-20), Num(60), Num(20)>>)>>]

TableTwoYears ==
    [columns |-> <<"Jan", "Feb", "J-D">>,
     rows |-> <<Row(FirstYear, <<Num(-20), Num(40), Num(10)>>),
                Row(FirstYear + 1, <<Num(60), Num(160), Num(110)>>)>>]

Datasets == {TableNoValue, TableOneRecord, TableOneYear, TableTwoYears}

-----------------------------------------------------------------------------
(* The script as a state machine                                           *)

MaxHours == 2

\* The instants at which something happens: around every multiple of ttl.
Instants == {k * ttl + e : k \in 0..MaxHours, e \in {-1, 0, 1}} \cap Nat

\* The table this run's load_nasa_data() call would return.
CurrentTable ==
    Prepare(IF CacheFresh(cache, now) THEN cache.value ELSE load_nasa_data(remote))

\* Days the date picker offers: min_value <= day <= max_value.
PickableDays(table) ==
    {d \in {<<y, m, day>> : y \in FirstYear..(FirstYear + 1),
                            m \in {1, 2}, day \in {1, 15}} :
        DateLE(MinDate(table), d) /\ DateLE(d, MaxDate(table))}

\* st.date_input in range mode returns a tuple: two dates once the range is
\* complete, one while only its start is chosen.  <<>> stands for a run that
\* never reached the widget.
WidgetReturns(table) ==
    IF table = <<>> THEN {<<>>}
    ELSE {<<a>> : a \in PickableDays(table)}
         \cup {p \in PickableDays(table) \X PickableDays(table) : DateLE(p[1], p[2])}

IsWidgetReturn(di, table) ==
    /\ Len(di) \in {1, 2}
    /\ \A i \in 1..Len(di) : DateLE(MinDate(table), di[i]) /\ DateLE(di[i], MaxDate(table))
    /\ Len(di) = 2 => DateLE(di[1], di[2])

Init ==
    /\ remote \in Datasets
    /\ now = 0
    /\ cache = NoEntry
    /\ lastFetch = -1
    /\ status = "init"
    /\ fetched = FALSE
    /\ loaded = <<>>
    /\ df = <<>>
    /\ date_input = <<>>
    /\ mood_filter = {}
    /\ filtered = <<>>
    /\ metrics = NoMetrics
    /\ charts = NoCharts
    /\ arg = <<>>
    /\ res = <<>>
    /\ pc = "main"

\* Time passes.
Tick ==
    /\ pc = "main"
    /\ \E t \in Instants : t > now /\ now' = t
    /\ UNCHANGED <<remote, cache, lastFetch, status, fetched, loaded, df,
                   date_input, mood_filter, filtered, metrics, charts, arg, res, pc>>

\* NASA publishes another table.
RemoteUpdate ==
    /\ pc = "main"
    /\ \E t \in Datasets : t # remote /\ remote' = t
    /\ UNCHANGED <<now, cache, lastFetch, status, fetched, loaded, df,
                   date_input, mood_filter, filtered, metrics, charts, arg, res, pc>>

\* One run of the script, top to bottom (Streamlit reruns it on every
\* interaction).  di and mf are what the two sidebar widgets return; net says
\* whether an HTTP fetch, if one is made, succeeds.  The run stops at the first
\* exception: a failed fetch (line 46), df.iloc[-1] on an empty table
\* (IndexError, line 91), or unpacking a date_input tuple that does not hold
\* two dates (ValueError, line 102).
Render(di, mf, net) ==
    LET hit == CacheFresh(cache, now)
        value == IF hit THEN cache.value ELSE load_nasa_data(remote)
        loadOK == hit \/ net
        table == IF loadOK THEN Prepare(value) ELSE <<>>
        atWidget == loadOK /\ table # <<>>
        complete == atWidget /\ Len(di) = 2
        view == IF complete THEN MoodMask(DateMask(table, di[1], di[2]), mf)
                ELSE <<>>
    IN /\ pc = "main"
       /\ IF atWidget THEN IsWidgetReturn(di, table) ELSE di = <<>>
       /\ complete \/ mf = {}
       /\ cache' = IF hit THEN [cache EXCEPT !.value = StoredAfterRun(cache.value, table)]
                   ELSE IF net THEN [valid |-> TRUE,
                                     value |-> StoredAfterRun(value, table),
                                     stored |-> now]
                   ELSE NoEntry
       /\ lastFetch' = IF ~hit /\ net THEN now ELSE lastFetch
       /\ fetched' = ~hit
       /\ loaded' = IF loadOK THEN value ELSE <<>>
       /\ df' = table
       /\ status' = IF ~loadOK THEN "fetch_error"
                    ELSE IF table = <<>> THEN "IndexError"
                    ELSE IF ~complete THEN "ValueError"
                    ELSE "ok"
       /\ date_input' = di
       /\ mood_filter' = mf
       /\ filtered' = view
       /\ metrics' = IF complete THEN Metrics(StatsTable(table, view)) ELSE NoMetrics
       /\ charts' = IF complete THEN Charts(view) ELSE NoCharts
       /\ UNCHANGED <<remote, now, arg, res, pc>>

\* The script under a changing clock and source, with a few filter choices.
FewDateInputs(table) ==
    IF table = <<>> THEN {<<>>}
    ELSE {<<MinDate(table), MaxDate(table)>>, <<MinDate(table)>>}

FewMoodSets == {Moods, {"Warm", "Hot"}, {}}

Next ==
    \/ Tick
    \/ RemoteUpdate
    \/ \E net \in BOOLEAN :
          \* The widgets are reached only when the table was loaded: from a
          \* fresh cache entry, or by a fetch that succeeds.
          \E di \in FewDateInputs(IF CacheFresh(cache, now) \/ net
                                  THEN CurrentTable ELSE <<>>),
             mf \in FewMoodSets :
                Render(di, mf, net)

Spec == Init /\ [][Next]_vars

\* The first run of the script on each table, under every filter state.
NextFilter ==
    /\ status = "init"
    /\ \E di \in WidgetReturns(CurrentTable), mf \in SUBSET Moods : Render(di, mf, TRUE)

SpecFilter == Init /\ [][NextFilter]_vars

-----------------------------------------------------------------------------
(* Function studies: one call of a function on each input of a bounded set *)

ScriptIdle ==
    /\ remote = TableNoValue
    /\ now = 0
    /\ cache = NoEntry
    /\ lastFetch = -1
    /\ status = "init"
    /\ fetched = FALSE
    /\ loaded = <<>>
    /\ df = <<>>
    /\ date_input = <<>>
    /\ mood_filter = {}
    /\ filtered = <<>>
    /\ metrics = NoMetrics
    /\ charts = NoCharts

\* get_earth_mood on every anomaly from -MaxBelowZero to MaxAboveZero hundredths.
MaxBelowZero == 60

MaxAboveZero == 210

InitMood ==
    /\ ScriptIdle
    /\ arg \in (0 - MaxBelowZero)..MaxAboveZero
    /\ res = <<>>
    /\ pc = "call"

CallMood ==
    /\ pc = "call"
    /\ res' = get_earth_mood(arg)
    /\ pc' = "done"
    /\ UNCHANGED <<scriptVars, arg>>

SpecMood == InitMood /\ [][CallMood]_vars

\* load_nasa_data on every table of NumYears rows at most, in any row order,
\* with columns Jan, Dec and the annual mean J-D; each cell is a number, the
\* sentinel, or NASA's three-star mark.
NumYears == 2

LoadColumns == <<"Jan", "Dec", "J-D">>

CellOf(kind, r, c) == IF kind = "number" THEN Num(40 * r + 15 * c - 75) ELSE Txt(kind)

YearOrders ==
    {ys \in UNION {[1..n -> FirstYear..(FirstYear + NumYears - 1)] : n \in 0..NumYears} :
        \A i, j \in 1..Len(ys) : i # j => ys[i] # ys[j]}

CellKinds == {"number", "*******", "***"}

RawTable(ys, kinds) ==
    [columns |-> LoadColumns,
     rows |-> [r \in 1..Len(ys) |->
                 Row(ys[r], [c \in 1..Len(LoadColumns) |-> CellOf(kinds[r][c], r, c)])]]

InitLoad ==
    /\ ScriptIdle
    /\ \E ys \in YearOrders :
          \E kinds \in [1..Len(ys) -> [1..Len(LoadColumns) -> CellKinds]] :
             arg = RawTable(ys, kinds)
    /\ res = <<>>
    /\ pc = "call"

CallLoad ==
    /\ pc = "call"
    /\ res' = load_nasa_data(arg)
    /\ pc' = "done"
    /\ UNCHANGED <<scriptVars, arg>>

SpecLoad == InitLoad /\ [][CallLoad]_vars

\* The rolling mean on series of every length up to MaxSeriesLen, in
\* NumPatterns shapes.
MaxSeriesLen == 123

NumPatterns == 2

Series(len, pat) == [k \in 1..len |-> ((k * (pat + 2)) % 7) * 10 - 25 + (k \div 40) * pat]

InitRoll ==
    /\ ScriptIdle
    /\ arg \in {Series(len, pat) : len \in 0..MaxSeriesLen, pat \in 1..NumPatterns}
    /\ res = <<>>
    /\ pc = "call"

CallRoll ==
    /\ pc = "call"
    /\ res' = rolling_mean(arg, RollingWindow, MinPeriods)
    /\ pc' = "done"
    /\ UNCHANGED <<scriptVars, arg>>

SpecRoll == InitRoll /\ [][CallRoll]_vars

\* calc_trend on every series of two anomaly values up to MaxTrendLen records,
\* for windows of 0 to MaxTrendYears years.
MaxTrendLen == 13

MaxTrendYears == 1

TrendInputs ==
    UNION {[1..n -> {[Anomaly |-> -2], [Anomaly |-> 6]}] : n \in 0..MaxTrendLen}

InitTrend ==
    /\ ScriptIdle
    /\ arg \in [data : TrendInputs, years : 0..MaxTrendYears]
    /\ res = <<>>
    /\ pc = "call"

CallTrend ==
    /\ pc = "call"
    /\ res' = calc_trend(arg.data, arg.years)
    /\ pc' = "done"
    /\ UNCHANGED <<scriptVars, arg>>

SpecTrend == InitTrend /\ [][CallTrend]_vars

-----------------------------------------------------------------------------
(* Claims                                                                  *)

\* A step in which the script ran: the clock and the source stood still.
ScriptRan == now' = now /\ remote' = remote

MonthNames == <<"Jan", "Feb", "Mar", "Apr", "May", "Jun",
                "Jul", "Aug", "Sep", "Oct", "Nov", "Dec">>

MonthNumber(m) == CHOOSE i \in 1..12 : MonthNames[i] = m

\* C1: get_earth_mood returns one of the four labels, and which one is fixed
\* by the band the anomaly lies in: >= 1.5 Hot, [0.5, 1.5) Warm, [0, 0.5)
\* Stable, < 0 Cold, each lower bound inclusive.
C1_MoodBands ==
    pc = "done" =>
        /\ res \in {"Hot", "Warm", "Stable", "Cold"}
        /\ (res = "Hot") <=> (arg >= 150)
        /\ (res = "Warm") <=> (50 <= arg /\ arg < 150)
        /\ (res = "Stable") <=> (0 <= arg /\ arg < 50)
        /\ (res = "Cold") <=> (arg < 0)

C1_Witness == pc = "done" /\ arg = 50 /\ res = "Warm"

\* C2: load_nasa_data returns exactly one record for each (year, month) cell
\* of a canonical month column that holds a number, nothing from any other
\* column and nothing for a missing cell; every record is dated on the first
\* of its month, and the records are in strictly ascending date order (so no
\* date occurs twice).
C2_LoadRecords ==
    pc = "done" =>
        LET cells == {rc \in (1..Len(arg.rows)) \X (1..Len(arg.columns)) :
                        /\ arg.columns[rc[2]] \in Range(MonthNames)
                        /\ arg.rows[rc[1]].cells[rc[2]].kind = "number"}
        IN /\ Len(res) = Cardinality(cells)
           /\ \A rc \in cells :
                 LET hits == {k \in 1..Len(res) :
                                /\ res[k].Year = arg.rows[rc[1]].Year
                                /\ res[k].Month = arg.columns[rc[2]]}
                 IN /\ Cardinality(hits) = 1
                    /\ \A k \in hits :
                          res[k].Anomaly = arg.rows[rc[1]].cells[rc[2]].num
           /\ \A k \in 1..Len(res) :
                 /\ res[k].Month \in Range(MonthNames)
                 /\ res[k].Date = <<res[k].Year, MonthNumber(res[k].Month), 1>>
           /\ \A k \in 1..(Len(res) - 1) : DateLT(res[k].Date, res[k + 1].Date)

C2_Witness ==
    /\ pc = "done"
    /\ Len(arg.rows) = 2
    /\ arg.rows[1].Year > arg.rows[2].Year
    /\ arg.rows[1].cells[3].kind = "number"
    /\ arg.rows[1].cells[1].kind = "*******"
    /\ arg.rows[2].cells[2].kind = "***"
    /\ Len(res) = 2
    /\ res[1].Month = "Jan"
    /\ res[2].Month = "Dec"

\* C3: a run less than ttl seconds after the last successful fetch is served
\* the cached value and fetches nothing; a run at or after that makes a new
\* fetch, whose result replaces the cached value; and the cache entry changes
\* in no other step.
C3_CacheTTL ==
    [][/\ ScriptRan =>
            /\ (lastFetch >= 0 /\ now - lastFetch < 3600) =>
                  /\ ~fetched'
                  /\ lastFetch' = lastFetch
                  /\ cache' = cache
                  /\ loaded' = cache.value
            /\ (lastFetch < 0 \/ now - lastFetch >= 3600) =>
                  /\ fetched'
                  /\ status' # "fetch_error" =>
                        /\ lastFetch' = now
                        /\ loaded' = load_nasa_data(remote)
                        /\ cache' = [valid |-> TRUE,
                                     value |-> load_nasa_data(remote),
                                     stored |-> now]
       /\ cache' # cache =>
            /\ ScriptRan
            /\ lastFetch < 0 \/ now - lastFetch >= 3600]_vars

\* A run in the last second of the window, served the cached table although
\* the source has changed since.
C3_Witness ==
    /\ status = "ok"
    /\ ~fetched
    /\ now - lastFetch = 3599
    /\ cache.valid
    /\ loaded = cache.value
    /\ loaded # load_nasa_data(remote)

\* The j-th (in table order) of the positions in idx.
NthOf(idx, j) == CHOOSE k \in idx : Cardinality({i \in idx : i <= k}) = j

\* C4: the filtered view is the sub-sequence of the full table, in the same
\* order, of exactly the records with start <= date <= end and mood in the
\* mood set.
C4_FilteredView ==
    status = "ok" =>
        LET idx == {k \in 1..Len(df) :
                      /\ DateLE(date_input[1], df[k].Date)
                      /\ DateLE(df[k].Date, date_input[2])
                      /\ df[k].Mood \in mood_filter}
        IN /\ Len(filtered) = Cardinality(idx)
           /\ \A j \in 1..Len(filtered) : filtered[j] = df[NthOf(idx, j)]
           /\ mood_filter = {} => filtered = <<>>

C4_Witness ==
    /\ status = "ok"
    /\ Len(df) = 4
    /\ Len(filtered) = 2
    /\ mood_filter = {"Cold", "Warm"}
    /\ date_input[1] = df[1].Date
    /\ date_input[2] = df[3].Date
    /\ filtered[2] = df[3]

\* C5: a run with a degenerate filter selection (an empty mood set, a date
\* input that does not hold two dates, a range with no record in it) ends
\* without error, with an empty view and empty charts.
C5_DegenerateFilterRendersEmpty ==
    (/\ status \in {"ok", "ValueError"}
     /\ \/ Len(date_input) < 2
        \/ mood_filter = {}
        \/ \A k \in 1..Len(df) : ~(/\ DateLE(date_input[1], df[k].Date)
                                   /\ DateLE(df[k].Date, date_input[2])))
    => /\ status = "ok"
       /\ filtered = <<>>
       /\ charts.drawn
       /\ charts.hist_x = <<>>
       /\ DOMAIN charts.pie = {}

\* C6: whatever table the loader returns, the run computes the latest record,
\* the trend, the correlation and the two predictions without raising.
C6_StatisticsNeverRaise ==
    status \notin {"init", "fetch_error"} =>
        /\ status # "IndexError"
        /\ ~polyfit1(Years(df), Anomalies(df)).raises

\* C7: the five dashboard values depend on the loaded table alone: two runs
\* on the same table that both read a complete filter state show the same
\* values, whatever the two filter states are.
C7_SummaryIgnoresFilter ==
    /\ [](status = "ok" => metrics = Metrics(Prepare(loaded)))
    /\ [][(ScriptRan /\ status = "ok" /\ status' = "ok" /\ loaded' = loaded)
             => metrics' = metrics]_vars

C7_Witness ==
    /\ status = "ok"
    /\ ~fetched
    /\ Len(df) = 4
    /\ Len(filtered) = 2
    /\ metrics.shown
    /\ metrics.latest_mood = "Hot"

\* C8: the rolling mean has one entry per record; entry i (counting from 1)
\* is absent when i < 30, and otherwise is the mean of the last min(i, 120)
\* anomalies ending at i.  The sums are stated by their recurrence: the first
\* defined entry sums the first 30 values, and each later entry adds the value
\* entering the window and drops the one leaving it.
C8_RollingMean ==
    pc = "done" =>
        /\ Len(res) = Len(arg)
        /\ \A i \in 1..Len(arg) :
              /\ res[i].nan <=> (i < 30)
              /\ i >= 30 => res[i].n = Min2(i, 120)
              /\ i = 30 => res[i].sum = SumSeq(SubSeq(arg, 1, 30))
              /\ i > 30 => res[i].sum = res[i - 1].sum + arg[i]
                                         - (IF i > 120 THEN arg[i - 120] ELSE 0)

C8_Witness ==
    /\ pc = "done"
    /\ Len(arg) = 122
    /\ res[29].nan
    /\ ~res[30].nan
    /\ res[122].n = 120
    /\ res[122].sum # res[121].sum

\* C9: calc_trend looks at the last years*12 records only, returns 0 when
\* those are fewer than 2, and otherwise returns 12 times the least-squares
\* slope of anomaly against the index 0, 1, 2, ...  (the slope b of the
\* normal equations: b * (n*Sxx - Sx^2) = n*Sxy - Sx*Sy).
C9_RecentTrend ==
    pc = "done" =>
        LET n == Min2(Len(arg.data), arg.years * 12)
            first == Len(arg.data) - n
            xs == [k \in 1..n |-> k - 1]
            ys == [k \in 1..n |-> arg.data[first + k].Anomaly]
            Sx == SumSeq(xs)
            Sy == SumSeq(ys)
            Sxx == SumSeq([k \in 1..n |-> xs[k] * xs[k]])
            Sxy == SumSeq([k \in 1..n |-> xs[k] * ys[k]])
        IN /\ n < 2 => res = [num |-> 0, den |-> 1]
           /\ n >= 2 =>
                 /\ res.den # 0
                 /\ res.num * (n * Sxx - Sx * Sx) = 12 * res.den * (n * Sxy - Sx * Sy)

C9_Witness ==
    /\ pc = "done"
    /\ arg.years = 1
    /\ Len(arg.data) = 13
    /\ arg.data[1].Anomaly = 6
    /\ \A k \in 2..13 : arg.data[k].Anomaly = -2
    /\ res.num = 0

\* C10: what the script does to the table it received never reaches the
\* cache: the cached value is always a table as load_nasa_data built it, and
\* a run served from the cache receives that table and leaves it in place.
C10_CacheReadOnly ==
    /\ [](cache.valid => \E t \in Datasets : cache.value = load_nasa_data(t))
    /\ [][(ScriptRan /\ ~fetched' /\ status' # "init")
             => (cache'.value = cache.value /\ loaded' = cache.value)]_vars

C10_Witness ==
    /\ status = "ok"
    /\ ~fetched
    /\ cache.valid
    /\ loaded = cache.value
    /\ Len(df) = 4
    /\ df[1].Mood = "Cold"
    /\ filtered # <<>>


=============================================================================
